---- MODULE Spec2Model ----
(***************************************************************************)
(* Model of the OneDrive reparse-point plugin of NTFS-3G (src/onedrive.c). *)
(*                                                                         *)
(* The host driver calls one plugin operation at a time on an inode and    *)
(* the reparse descriptor attached to it.  The plugin reaches the volume   *)
(* only through the host primitives ntfs_attr_open/close/pread/pwrite/     *)
(* truncate, ntfs_create, ntfs_link, ntfs_delete and ntfs_readdir, which   *)
(* are modelled by their return contract with every outcome left open.     *)
(***************************************************************************)
EXTENDS Integers, Sequences, FiniteSets, TLC

\* ------------------------------------------------------------ bounds
MaxSize   == 3      \* capacity of a data attribute, in bytes
MaxLen    == 3      \* largest size argument of read / write / truncate
MaxOffset == 3      \* largest offset argument of read / write
MaxCreate == 1      \* nodes the host can still create in the directory

\* ------------------------------------------------------------ constants
\* errno values (Linux <errno.h>)
EIO        == 5
ENOMEM     == 12
EINVAL     == 22
EREMOTE    == 66
EOPNOTSUPP == 95
\* open(2) access modes
O_RDONLY  == 0
O_WRONLY  == 1
O_RDWR    == 2
O_ACCMODE == 3
O_NONBLOCK == 2048
\* st_mode file types and the permission bits the plugin reports
S_IFMT  == 61440    \* 0170000
S_IFDIR == 16384    \* 0040000
S_IFREG == 32768    \* 0100000
S_IFLNK == 40960    \* 0120000
MODE_0555 == 365    \* 0555
MODE_0644 == 420    \* 0644
\* size of one $I30 index block
IndexBlockSize == 4096

NULL == "NULL"
\* the null inode pointer, as an inode number
NoInode == 0

\* ------------------------------------------------------------ bit operations
\* Bitwise operators on naturals, bit by bit.
RECURSIVE BitXor(_, _)
BitXor(a, b) ==
    IF a = 0 /\ b = 0 THEN 0
    ELSE (((a % 2) + (b % 2)) % 2) + (2 * BitXor(a \div 2, b \div 2))

RECURSIVE BitAnd(_, _)
BitAnd(a, b) ==
    IF a = 0 \/ b = 0 THEN 0
    ELSE ((a % 2) * (b % 2)) + (2 * BitAnd(a \div 2, b \div 2))

RECURSIVE BitOr(_, _)
BitOr(a, b) ==
    IF a = 0 /\ b = 0 THEN 0
    ELSE (IF (a % 2) = 1 \/ (b % 2) = 1 THEN 1 ELSE 0) + (2 * BitOr(a \div 2, b \div 2))

\* A 32-bit reparse tag is kept as its two 16-bit halves <<high, low>>.
Tag(hi, lo) == [hi |-> hi, lo |-> lo]
Xor32(t, u) == Tag(BitXor(t.hi, u.hi), BitXor(t.lo, u.lo))
And32(t, u) == Tag(BitAnd(t.hi, u.hi), BitAnd(t.lo, u.lo))
Zero32 == Tag(0, 0)

IO_REPARSE_TAG_CLOUD     == Tag(36864, 26)      \* 0x9000001A
IO_REPARSE_PLUGIN_SELECT == Tag(65535, 4095)    \* 0xffff0fff

\* Reparse tags the host may hand to the plugin.
TAG_CLOUD_6  == Tag(36864, 24602)    \* 0x9000601A  IO_REPARSE_TAG_CLOUD_6
TAG_PROJFS   == Tag(36864, 28)       \* 0x9000001C  IO_REPARSE_TAG_PROJFS
TAG_SYMLINK  == Tag(40960, 12)       \* 0xA000000C  IO_REPARSE_TAG_SYMLINK
CloudTags   == {IO_REPARSE_TAG_CLOUD, TAG_CLOUD_6}  \* tags of the cloud family
ForeignTags == {TAG_PROJFS, TAG_SYMLINK}            \* tags of other plugins
Tags == {IO_REPARSE_TAG_CLOUD, TAG_CLOUD_6, TAG_PROJFS}
\* a null reparse pointer
NoReparse == Tag(-1, -1)

\* The gate of every operation:
\*   !((reparse->reparse_tag ^ IO_REPARSE_TAG_CLOUD) & IO_REPARSE_PLUGIN_SELECT)
\* (evaluated once for each tag of the model)
GateTest[tag \in CloudTags \cup ForeignTags] ==
    And32(Xor32(tag, IO_REPARSE_TAG_CLOUD), IO_REPARSE_PLUGIN_SELECT) = Zero32
\* (mutant: the selector mask keeps the high half of the tag only)
TagGateHighHalf(tag) ==
    And32(Xor32(tag, IO_REPARSE_TAG_CLOUD), Tag(65535, 0)) = Zero32
TagGate(tag) == GateTest[tag]

\* ------------------------------------------------------------ state
Inodes == {"dir", "file"}       \* the managed inodes: one directory, one plain file
Names  == {"a"}                 \* entry names used in the directory
HostErrnos == {ENOMEM}          \* what a failing host primitive leaves in errno

VARIABLES
    inodes,     \* ntfs_inode: is_dir (mrec->flags & MFT_RECORD_IS_DIRECTORY),
                \*   offline (flags & FILE_ATTR_OFFLINE), data_size, allocated_size,
                \*   KnownSize (the nino flag)
    attrs,      \* attribute store: sizes of the unnamed $DATA attribute of a file,
                \*   of the $I30 index allocation of a directory
    dirents,    \* namespace of the directory: name -> inode, or NULL
    ncreated,   \* nodes created in the directory so far
    errno,      \* the C library's errno
    streams,    \* attribute streams: open now, opened / closed by the current
                \*   call, and whether a close ever hit a stream that was not open
    pc,         \* "idle" between calls, "read" / "write" inside the loops
    cur,        \* locals of the call in flight: ni, size, offset, total
    last,       \* the operation called last and its arguments
    res,        \* its integer result
    stbuf,      \* the stat buffer handed to getattr, as the call left it
    new_ni,     \* the inode create returned, or NoInode
    calls       \* the host primitives it called, in order

vars == <<inodes, attrs, dirents, ncreated, errno, streams, pc, cur, last, res, stbuf, new_ni, calls>>

Call(op, ni, reparse, ptr, size, offset, mode, name, target) ==
    [op |-> op, ni |-> ni, reparse |-> reparse, ptr |-> ptr, size |-> size,
     offset |-> offset, mode |-> mode, name |-> name, target |-> target]
NoCall  == Call("host", NULL, NoReparse, FALSE, 0, 0, 0, NULL, NoInode)
CurIdle == [ni |-> NULL, size |-> 0, offset |-> 0, total |-> 0]
StatInit == [st_mode |-> 0, st_size |-> 0, st_blocks |-> 0, st_nlink |-> 0]
HostCall(fn, offset, count, ret) == [fn |-> fn, offset |-> offset, count |-> count, ret |-> ret]

\* Allocation of the host for a data attribute: whole clusters of 4096 bytes.
AllocatedFor(size) == ((size + 4095) \div 4096) * 4096

Init ==
    /\ inodes = [i \in Inodes |->
                   [is_dir |-> (i = "dir"), offline |-> FALSE, data_size |-> 0,
                    allocated_size |-> 0, KnownSize |-> (i # "dir")]]
    /\ attrs = [i \in Inodes |->
                   IF i = "dir"
                   THEN [data_size |-> IndexBlockSize, allocated_size |-> IndexBlockSize]
                   ELSE [data_size |-> 0, allocated_size |-> 0]]
    /\ dirents = [n \in Names |-> NoInode]
    /\ ncreated = 0
    /\ errno = 0
    /\ streams = [open |-> 0, opened |-> 0, closed |-> 0, misuse |-> FALSE]
    /\ pc = "idle"
    /\ cur = CurIdle
    /\ last = NoCall
    /\ res = 0
    /\ stbuf = StatInit
    /\ new_ni = NoInode
    /\ calls = <<>>

\* ------------------------------------------------------------ host primitives
\* ntfs_attr_open(ni, type, name, name_len): a stream on the attribute, or NULL
\* with errno set.  A directory has no unnamed $DATA attribute; any open may
\* fail for lack of memory or on an I/O error.
ntfs_attr_open(ni, type) ==
    {[ok |-> FALSE, na |-> attrs[ni], errno |-> e] : e \in HostErrnos}
    \cup (IF (type = "AT_DATA") = ~inodes[ni].is_dir
          THEN {[ok |-> TRUE, na |-> attrs[ni], errno |-> errno]} ELSE {})

\* A call starts with no stream opened or closed by it.
StreamsAtEntry == [streams EXCEPT !.opened = 0, !.closed = 0]
\* the stream table after a successful ntfs_attr_open
StreamOpened(st) == [st EXCEPT !.open = @ + 1, !.opened = @ + 1]
\* ntfs_attr_close(na)
ntfs_attr_close(st) ==
    IF st.open > 0 THEN [st EXCEPT !.open = @ - 1, !.closed = @ + 1]
    ELSE [st EXCEPT !.misuse = TRUE]

\* ------------------------------------------------------------ onedrive_getattr
getattr_admit(ni, reparse, buf) ==
    /\ ni # NULL /\ reparse # NoReparse /\ buf
    /\ TagGate(reparse)

\* st_blocks of a directory and of a file
DirBlocks(allocated_size) == allocated_size \div 512
FileBlocks(data_size) == (data_size + 511) \div 512

\* (mutant: the index size is queried on every call)
getattr_always_query(n) == TRUE

\* "get index size, if not known"
getattr_must_query(n) == ~n.KnownSize

\* The inode after a successful open of the index attribute na.
getattr_cache(n, na) ==
    [n EXCEPT !.data_size = na.data_size, !.allocated_size = na.allocated_size,
              !.KnownSize = TRUE]

getattr_close(st) == ntfs_attr_close(st)

\* S_IFDIR | 0555 and S_IFREG | 0555
DirMode  == BitOr(S_IFDIR, MODE_0555)
FileMode == BitOr(S_IFREG, MODE_0555)

getattr_dir_stat(n) ==
    [st_mode |-> DirMode, st_size |-> n.data_size,
     st_blocks |-> DirBlocks(n.allocated_size), st_nlink |-> 1]

getattr_file_stat(n) ==
    [StatInit EXCEPT !.st_size = n.data_size, !.st_blocks = FileBlocks(n.data_size),
                     !.st_mode = FileMode]

onedrive_getattr(ni, reparse, buf) ==
    /\ pc = "idle"
    /\ last' = Call("getattr", ni, reparse, buf, 0, 0, 0, NULL, NoInode)
    /\ new_ni' = NoInode
    /\ UNCHANGED <<attrs, dirents, ncreated, pc, cur>>
    /\ IF ~getattr_admit(ni, reparse, buf)
       THEN /\ res' = -EOPNOTSUPP
            /\ stbuf' = StatInit
            /\ calls' = <<>>
            /\ streams' = StreamsAtEntry
            /\ UNCHANGED <<inodes, errno>>
       ELSE IF inodes[ni].is_dir
       THEN IF getattr_must_query(inodes[ni])
            THEN \E o \in ntfs_attr_open(ni, "AT_INDEX_ALLOCATION") :
                   LET n1 == IF o.ok THEN getattr_cache(inodes[ni], o.na)
                             ELSE inodes[ni]
                   IN /\ inodes' = [inodes EXCEPT ![ni] = n1]
                      /\ errno' = o.errno
                      /\ streams' = IF o.ok
                                    THEN getattr_close(StreamOpened(StreamsAtEntry))
                                    ELSE StreamsAtEntry
                      /\ calls' = <<HostCall("ntfs_attr_open", 0, 0,
                                             IF o.ok THEN 0 ELSE -1)>>
                      /\ stbuf' = getattr_dir_stat(n1)
                      /\ res' = 0
            ELSE /\ stbuf' = getattr_dir_stat(inodes[ni])
                 /\ res' = 0
                 /\ calls' = <<>>
                 /\ streams' = StreamsAtEntry
                 /\ UNCHANGED <<inodes, errno>>
       ELSE /\ stbuf' = getattr_file_stat(inodes[ni])
            /\ res' = 0
            /\ calls' = <<>>
            /\ streams' = StreamsAtEntry
            /\ UNCHANGED <<inodes, errno>>

\* ------------------------------------------------------------ onedrive_opendir
\* (mutant: the access mode is not looked at)
opendir_admit_any_mode(ni, reparse, fi, flags) ==
    /\ ni # NULL /\ reparse # NoReparse /\ fi
    /\ TagGate(reparse)
    /\ inodes[ni].is_dir

opendir_admit(ni, reparse, fi, flags) ==
    /\ ni # NULL /\ reparse # NoReparse /\ fi
    /\ TagGate(reparse)
    /\ inodes[ni].is_dir
    /\ BitAnd(flags, O_ACCMODE) = O_RDONLY

\* An operation that returns r at once, having called no host primitive and
\* touched nothing but its result.
ReturnsAtOnce(call, r) ==
    /\ pc = "idle"
    /\ last' = call
    /\ res' = r
    /\ stbuf' = StatInit
    /\ new_ni' = NoInode
    /\ calls' = <<>>
    /\ streams' = StreamsAtEntry
    /\ UNCHANGED <<inodes, attrs, dirents, ncreated, errno, pc, cur>>

onedrive_opendir(ni, reparse, fi, flags) ==
    ReturnsAtOnce(Call("opendir", ni, reparse, fi, 0, 0, flags, NULL, NoInode),
                  IF opendir_admit(ni, reparse, fi, flags) THEN 0 ELSE -EOPNOTSUPP)

\* ------------------------------------------------------------ onedrive_release
onedrive_release(ni, reparse, fi) ==
    ReturnsAtOnce(Call("release", ni, reparse, fi, 0, 0, 0, NULL, NoInode), 0)

\* ------------------------------------------------------------ onedrive_open
open_admit(ni, reparse) ==
    /\ ni # NULL /\ reparse # NoReparse
    /\ TagGate(reparse)
    /\ ~inodes[ni].is_dir

\* (mutant: the offline flag is not looked at)
open_result_ignore_offline(n) == 0
open_result(n) == IF n.offline THEN -EREMOTE ELSE 0

onedrive_open(ni, reparse, fi) ==
    ReturnsAtOnce(Call("open", ni, reparse, fi, 0, 0, 0, NULL, NoInode),
                  IF open_admit(ni, reparse) THEN open_result(inodes[ni])
                  ELSE -EOPNOTSUPP)

\* ------------------------------------------------------------ namespace primitives
\* Inode numbers a name of the directory can denote: the managed file, then the
\* nodes created in the directory.
FileNo == 1
Targets == 1 .. (MaxCreate + 1)

\* The $I30 index allocation after a node was created: as it was, or one block more.
IndexGrown(a) ==
    {a, [data_size |-> a.data_size + IndexBlockSize,
         allocated_size |-> a.allocated_size + IndexBlockSize]}

\* ntfs_create(dir_ni, securid, name, name_len, type): the new inode, or NULL
\* with errno set.
ntfs_create(dir_ni, name) ==
    {[ni |-> NoInode, errno |-> e, dirents |-> dirents, ncreated |-> ncreated,
      index |-> attrs[dir_ni]] : e \in HostErrnos}
    \cup (IF dirents[name] = NoInode /\ ncreated < MaxCreate
          THEN {[ni |-> FileNo + ncreated + 1, errno |-> errno,
                 dirents |-> [dirents EXCEPT ![name] = FileNo + ncreated + 1],
                 ncreated |-> ncreated + 1, index |-> a] : a \in IndexGrown(attrs[dir_ni])}
          ELSE {})

\* ntfs_link(ni, dir_ni, name, name_len): 0, or -1 with errno set.
ntfs_link(ni, dir_ni, name) ==
    {[ret |-> -1, errno |-> e, dirents |-> dirents, index |-> attrs[dir_ni]] :
        e \in HostErrnos}
    \cup (IF dirents[name] = NoInode /\ ni \in FileNo .. (FileNo + ncreated)
          THEN {[ret |-> 0, errno |-> errno, dirents |-> [dirents EXCEPT ![name] = ni],
                 index |-> attrs[dir_ni]]}
          ELSE {})

\* ntfs_delete(vol, pathname, ni, dir_ni, name, name_len): 0, or -1 with errno set.
ntfs_delete(ni, dir_ni, name) ==
    {[ret |-> -1, errno |-> e, dirents |-> dirents] : e \in HostErrnos}
    \cup (IF dirents[name] = ni
          THEN {[ret |-> 0, errno |-> errno, dirents |-> [dirents EXCEPT ![name] = NoInode]]}
          ELSE {})

\* ntfs_readdir(ni, pos, fillctx, filldir): 0, or non-zero with errno set.
ntfs_readdir(ni) ==
    {[ret |-> -1, errno |-> e] : e \in HostErrnos} \cup {[ret |-> 0, errno |-> errno]}

\* ------------------------------------------------------------ onedrive_create
\* (mutant: every kind of node is accepted)
create_kind_any(type) == TRUE
create_kind_ok(type) == type = S_IFREG \/ type = S_IFDIR

create_admit(dir_ni, reparse, type) ==
    /\ dir_ni # NULL /\ reparse # NoReparse
    /\ TagGate(reparse)
    /\ inodes[dir_ni].is_dir
    /\ create_kind_ok(type)

onedrive_create(dir_ni, reparse, name, type) ==
    /\ pc = "idle"
    /\ last' = Call("create", dir_ni, reparse, TRUE, 0, 0, type, name, NoInode)
    /\ stbuf' = StatInit
    /\ res' = 0
    /\ streams' = StreamsAtEntry
    /\ UNCHANGED <<inodes, pc, cur>>
    /\ IF create_admit(dir_ni, reparse, type)
       THEN \E o \in ntfs_create(dir_ni, name) :
              /\ new_ni' = o.ni
              /\ errno' = o.errno
              /\ dirents' = o.dirents
              /\ ncreated' = o.ncreated
              /\ attrs' = [attrs EXCEPT ![dir_ni] = o.index]
              /\ calls' = <<HostCall("ntfs_create", 0, 0, IF o.ni = NoInode THEN -1 ELSE 0)>>
       ELSE /\ new_ni' = NoInode
            /\ errno' = EOPNOTSUPP
            /\ calls' = <<>>
            /\ UNCHANGED <<dirents, ncreated, attrs>>

\* ------------------------------------------------------------ onedrive_link
dirop_admit(dir_ni, reparse) ==
    /\ dir_ni # NULL /\ reparse # NoReparse
    /\ TagGate(reparse)
    /\ inodes[dir_ni].is_dir

onedrive_link(dir_ni, reparse, ni, name) ==
    /\ pc = "idle"
    /\ last' = Call("link", dir_ni, reparse, TRUE, 0, 0, 0, name, ni)
    /\ stbuf' = StatInit
    /\ new_ni' = NoInode
    /\ streams' = StreamsAtEntry
    /\ UNCHANGED <<inodes, ncreated, pc, cur>>
    /\ IF dirop_admit(dir_ni, reparse)
       THEN \E o \in ntfs_link(ni, dir_ni, name) :
              /\ res' = o.ret
              /\ errno' = o.errno
              /\ dirents' = o.dirents
              /\ attrs' = [attrs EXCEPT ![dir_ni] = o.index]
              /\ calls' = <<HostCall("ntfs_link", 0, 0, o.ret)>>
       ELSE /\ res' = -EOPNOTSUPP
            /\ calls' = <<>>
            /\ UNCHANGED <<errno, dirents, attrs>>

\* ------------------------------------------------------------ onedrive_unlink
onedrive_unlink(dir_ni, reparse, ni, name) ==
    /\ pc = "idle"
    /\ last' = Call("unlink", dir_ni, reparse, TRUE, 0, 0, 0, name, ni)
    /\ stbuf' = StatInit
    /\ new_ni' = NoInode
    /\ streams' = StreamsAtEntry
    /\ UNCHANGED <<inodes, attrs, ncreated, pc, cur>>
    /\ IF dirop_admit(dir_ni, reparse)
       THEN \E o \in ntfs_delete(ni, dir_ni, name) :
              /\ res' = o.ret
              /\ errno' = o.errno
              /\ dirents' = o.dirents
              /\ calls' = <<HostCall("ntfs_delete", 0, 0, o.ret)>>
       ELSE /\ res' = -EOPNOTSUPP
            /\ calls' = <<>>
            /\ UNCHANGED <<errno, dirents>>

\* ------------------------------------------------------------ onedrive_readdir
readdir_admit(ni, reparse, ptrs) ==
    /\ ni # NULL /\ reparse # NoReparse /\ ptrs
    /\ inodes[ni].is_dir
    /\ TagGate(reparse)

onedrive_readdir(ni, reparse, ptrs) ==
    /\ pc = "idle"
    /\ last' = Call("readdir", ni, reparse, ptrs, 0, 0, 0, NULL, NoInode)
    /\ stbuf' = StatInit
    /\ new_ni' = NoInode
    /\ streams' = StreamsAtEntry
    /\ UNCHANGED <<inodes, attrs, dirents, ncreated, pc, cur>>
    /\ IF readdir_admit(ni, reparse, ptrs)
       THEN \E o \in ntfs_readdir(ni) :
              /\ res' = IF o.ret # 0 THEN -o.errno ELSE 0
              /\ errno' = o.errno
              /\ calls' = <<HostCall("ntfs_readdir", 0, 0, o.ret)>>
       ELSE /\ res' = -EOPNOTSUPP
            /\ calls' = <<>>
            /\ UNCHANGED errno

\* ------------------------------------------------------------ data primitives
\* A size_t is kept as the representative of its residue modulo 2^64 that the
\* cast (s64)size yields; "size > 0" on the unsigned value is "not zero".
SizeNotZero(size) == size # 0

\* ntfs_attr_pread(na, pos, count, buf): any count the host may hand back,
\* one more than asked for included; -1 comes with errno set.
ntfs_attr_pread(count) == -1 .. (count + 1)

\* ntfs_attr_pwrite(na, pos, count, buf): likewise; bytes are only written
\* within the capacity of the attribute.
ntfs_attr_pwrite(pos, count) ==
    {-1, 0} \cup {r \in 1 .. ((IF count > 0 THEN count ELSE 0) + 1) : pos + r <= MaxSize}

\* The unnamed $DATA attribute and the sizes cached in its inode once the
\* attribute holds `size` bytes (the host keeps both in step).
DataResized(a, size) == [a EXCEPT !.data_size = size, !.allocated_size = AllocatedFor(size)]
InodeResized(n, size) == [n EXCEPT !.data_size = size, !.allocated_size = AllocatedFor(size)]
Max(a, b) == IF a > b THEN a ELSE b

\* ntfs_attr_truncate(na, size): 0, or -1 with errno set.
ntfs_attr_truncate(size) ==
    {[ret |-> -1, errno |-> e] : e \in HostErrnos}
    \cup (IF size <= MaxSize THEN {[ret |-> 0, errno |-> errno]} ELSE {})

\* res = (ret < 0) ? -errno : -EIO
io_error(ret, err) == IF ret < 0 THEN -err ELSE -EIO

\* A call in flight ends: result r, the stream table st.
Finish(r, st) ==
    /\ pc' = "idle"
    /\ cur' = CurIdle
    /\ res' = r
    /\ streams' = st

\* ------------------------------------------------------------ onedrive_read
read_admit(ni, reparse, buf) ==
    /\ ni # NULL /\ reparse # NoReparse /\ buf
    /\ TagGate(reparse)

\* (mutant: the size is not clamped to the data size)
read_span_unclamped(size, offset, max_read) == [ok |-> FALSE, size |-> size]

\* The readable span: "goto ok" past the end, else the clamped size.
read_span(size, offset, max_read) ==
    IF offset + size > max_read
    THEN IF max_read < offset THEN [ok |-> TRUE, size |-> size]
         ELSE [ok |-> FALSE, size |-> max_read - offset]
    ELSE [ok |-> FALSE, size |-> size]

\* (mutant: a return of zero is not fatal)
read_fatal_but_zero(ret, size) == ret < 0 \/ ret > size

\* ret <= 0 || ret > (s64)size
read_fatal(ret, size) == ret <= 0 \/ ret > size

\* size -= ret; offset += ret; total += ret
read_advance(c, ret) ==
    [c EXCEPT !.size = @ - ret, !.offset = @ + ret, !.total = @ + ret]

read_fail_close(st) == ntfs_attr_close(st)
read_ok_close(st) == ntfs_attr_close(st)

onedrive_read(ni, reparse, buf, size, offset) ==
    /\ pc = "idle"
    /\ last' = Call("read", ni, reparse, buf, size, offset, 0, NULL, NoInode)
    /\ stbuf' = StatInit
    /\ new_ni' = NoInode
    /\ UNCHANGED <<inodes, attrs, dirents, ncreated>>
    /\ IF ~read_admit(ni, reparse, buf)
       THEN /\ Finish(-EINVAL, StreamsAtEntry)
            /\ calls' = <<>>
            /\ UNCHANGED errno
       ELSE \E o \in ntfs_attr_open(ni, "AT_DATA") :
              /\ errno' = o.errno
              /\ calls' = <<HostCall("ntfs_attr_open", 0, 0, IF o.ok THEN 0 ELSE -1)>>
              /\ IF ~o.ok
                 THEN Finish(-o.errno, StreamsAtEntry)
                 ELSE LET span == read_span(size, offset, o.na.data_size)
                      IN IF span.ok \/ ~SizeNotZero(span.size)
                         THEN Finish(0, read_ok_close(StreamOpened(StreamsAtEntry)))
                         ELSE /\ pc' = "read"
                              /\ cur' = [ni |-> ni, size |-> span.size,
                                         offset |-> offset, total |-> 0]
                              /\ streams' = StreamOpened(StreamsAtEntry)
                              /\ UNCHANGED res

\* One turn of "while (size > 0)", with the exit of the loop when it is the last.
read_loop ==
    /\ pc = "read"
    /\ UNCHANGED <<inodes, attrs, dirents, ncreated, last, stbuf, new_ni>>
    /\ \E ret \in ntfs_attr_pread(cur.size), e \in HostErrnos :
         /\ calls' = Append(calls, HostCall("ntfs_attr_pread", cur.offset, cur.size, ret))
         /\ errno' = IF ret < 0 THEN e ELSE errno
         /\ IF read_fatal(ret, cur.size)
            THEN Finish(io_error(ret, e), read_fail_close(streams))
            ELSE LET c == read_advance(cur, ret)
                 IN IF SizeNotZero(c.size)
                    THEN /\ cur' = c
                         /\ UNCHANGED <<pc, res, streams>>
                    ELSE Finish(c.total, read_ok_close(streams))

\* ------------------------------------------------------------ onedrive_write
\* (mutant: the directory test is missing)
write_admit_any_kind(ni, reparse, buf) ==
    /\ ni # NULL /\ reparse # NoReparse /\ buf
    /\ TagGate(reparse)

write_admit(ni, reparse, buf) ==
    /\ ni # NULL /\ reparse # NoReparse /\ buf
    /\ ~inodes[ni].is_dir
    /\ TagGate(reparse)

\* ret <= 0
write_fatal(ret) == ret <= 0

\* (mutant: the offset is not advanced)
write_advance_same_offset(c, ret) ==
    [c EXCEPT !.size = @ - ret, !.total = @ + ret]

\* size -= ret; offset += ret; total += ret
write_advance(c, ret) ==
    [c EXCEPT !.size = @ - ret, !.offset = @ + ret, !.total = @ + ret]

\* (mutant: the failing turn of the loop returns without closing)
write_fail_leak(st) == st
write_fail_close(st) == ntfs_attr_close(st)
write_ok_close(st) == ntfs_attr_close(st)

onedrive_write(ni, reparse, buf, size, offset) ==
    /\ pc = "idle"
    /\ last' = Call("write", ni, reparse, buf, size, offset, 0, NULL, NoInode)
    /\ stbuf' = StatInit
    /\ new_ni' = NoInode
    /\ UNCHANGED <<inodes, attrs, dirents, ncreated>>
    /\ IF ~write_admit(ni, reparse, buf)
       THEN /\ Finish(-EINVAL, StreamsAtEntry)
            /\ calls' = <<>>
            /\ UNCHANGED errno
       ELSE \E o \in ntfs_attr_open(ni, "AT_DATA") :
              /\ errno' = o.errno
              /\ calls' = <<HostCall("ntfs_attr_open", 0, 0, IF o.ok THEN 0 ELSE -1)>>
              /\ IF ~o.ok
                 THEN Finish(-o.errno, StreamsAtEntry)
                 ELSE IF ~SizeNotZero(size)
                      THEN Finish(0, write_ok_close(StreamOpened(StreamsAtEntry)))
                      ELSE /\ pc' = "write"
                           /\ cur' = [ni |-> ni, size |-> size, offset |-> offset,
                                      total |-> 0]
                           /\ streams' = StreamOpened(StreamsAtEntry)
                           /\ UNCHANGED res

\* One turn of "while (size > 0)", with the exit of the loop when it is the last.
write_loop ==
    /\ pc = "write"
    /\ UNCHANGED <<dirents, ncreated, last, stbuf, new_ni>>
    /\ \E ret \in ntfs_attr_pwrite(cur.offset, cur.size), e \in HostErrnos :
         /\ calls' = Append(calls, HostCall("ntfs_attr_pwrite", cur.offset, cur.size, ret))
         /\ errno' = IF ret < 0 THEN e ELSE errno
         /\ LET end == Max(attrs[cur.ni].data_size, cur.offset + ret)
            IN IF ret > 0
               THEN /\ attrs' = [attrs EXCEPT ![cur.ni] = DataResized(@, end)]
                    /\ inodes' = [inodes EXCEPT ![cur.ni] = InodeResized(@, end)]
               ELSE UNCHANGED <<attrs, inodes>>
         /\ IF write_fatal(ret)
            THEN Finish(io_error(ret, e), write_fail_close(streams))
            ELSE LET c == write_advance(cur, ret)
                 IN IF SizeNotZero(c.size)
                    THEN /\ cur' = c
                         /\ UNCHANGED <<pc, res, streams>>
                    ELSE Finish(c.total, write_ok_close(streams))

\* ------------------------------------------------------------ onedrive_truncate
truncate_admit(ni, reparse) ==
    /\ ni # NULL /\ reparse # NoReparse
    /\ ~inodes[ni].is_dir
    /\ TagGate(reparse)

truncate_close(st) == ntfs_attr_close(st)

onedrive_truncate(ni, reparse, size) ==
    /\ pc = "idle"
    /\ last' = Call("truncate", ni, reparse, TRUE, size, 0, 0, NULL, NoInode)
    /\ stbuf' = StatInit
    /\ new_ni' = NoInode
    /\ UNCHANGED <<dirents, ncreated>>
    /\ IF ~truncate_admit(ni, reparse)
       THEN /\ Finish(-EINVAL, StreamsAtEntry)
            /\ calls' = <<>>
            /\ UNCHANGED <<errno, inodes, attrs>>
       ELSE \E o \in ntfs_attr_open(ni, "AT_DATA") :
              IF ~o.ok
              THEN /\ Finish(-o.errno, StreamsAtEntry)
                   /\ errno' = o.errno
                   /\ calls' = <<HostCall("ntfs_attr_open", 0, 0, -1)>>
                   /\ UNCHANGED <<inodes, attrs>>
              ELSE \E t \in ntfs_attr_truncate(size) :
                     /\ Finish(t.ret, truncate_close(StreamOpened(StreamsAtEntry)))
                     /\ errno' = t.errno
                     /\ calls' = <<HostCall("ntfs_attr_open", 0, 0, 0),
                                   HostCall("ntfs_attr_truncate", 0, size, t.ret)>>
                     /\ IF t.ret = 0
                        THEN /\ attrs' = [attrs EXCEPT ![ni] = DataResized(@, size)]
                             /\ inodes' = [inodes EXCEPT ![ni] = InodeResized(@, size)]
                        ELSE UNCHANGED <<inodes, attrs>>

\* ------------------------------------------------------------ the host's own steps
\* Between calls the synchronisation agent dehydrates or hydrates the file:
\* FILE_ATTR_OFFLINE is set or cleared in ni->flags.
host_set_offline(ni, offline) ==
    /\ pc = "idle"
    /\ ~inodes[ni].is_dir
    /\ inodes[ni].offline # offline
    /\ inodes' = [inodes EXCEPT ![ni].offline = offline]
    /\ last' = NoCall
    /\ res' = 0
    /\ stbuf' = StatInit
    /\ new_ni' = NoInode
    /\ calls' = <<>>
    /\ streams' = StreamsAtEntry
    /\ UNCHANGED <<attrs, dirents, ncreated, errno, pc, cur>>

\* ------------------------------------------------------------ specification
\* The pointers a call is made with: an inode, its reparse descriptor and the
\* operation's own pointer arguments (all there, or one missing); or one of the
\* first two null.
Args ==
    {[ni |-> i, reparse |-> t, ptr |-> TRUE] : i \in Inodes, t \in Tags}
    \cup {[ni |-> i, reparse |-> IO_REPARSE_TAG_CLOUD, ptr |-> FALSE] : i \in Inodes}
    \cup {[ni |-> i, reparse |-> NoReparse, ptr |-> TRUE] : i \in Inodes}
    \cup {[ni |-> NULL, reparse |-> IO_REPARSE_TAG_CLOUD, ptr |-> TRUE]}
OpenFlags == {O_RDONLY, O_WRONLY, O_RDWR, BitOr(O_RDONLY, O_NONBLOCK)}
NodeTypes == {S_IFREG, S_IFDIR, S_IFLNK, BitOr(S_IFREG, MODE_0644)}

Getattr  == \E a \in Args : onedrive_getattr(a.ni, a.reparse, a.ptr)
Opendir  == \E a \in Args, f \in OpenFlags : onedrive_opendir(a.ni, a.reparse, a.ptr, f)
Release  == \E a \in Args : onedrive_release(a.ni, a.reparse, a.ptr)
Open     == \E a \in Args : onedrive_open(a.ni, a.reparse, a.ptr)
Create   == \E a \in Args, n \in Names, t \in NodeTypes :
                a.ptr /\ onedrive_create(a.ni, a.reparse, n, t)
Link     == \E a \in Args, t \in Targets, n \in Names :
                a.ptr /\ onedrive_link(a.ni, a.reparse, t, n)
Unlink   == \E a \in Args, t \in Targets, n \in Names :
                a.ptr /\ onedrive_unlink(a.ni, a.reparse, t, n)
Readdir  == \E a \in Args : onedrive_readdir(a.ni, a.reparse, a.ptr)
Read     == \E a \in Args, size \in 0..MaxLen, offset \in 0..MaxOffset :
                onedrive_read(a.ni, a.reparse, a.ptr, size, offset)
Write    == \E a \in Args, size \in 0..MaxLen, offset \in 0..MaxOffset :
                onedrive_write(a.ni, a.reparse, a.ptr, size, offset)
Truncate == \E a \in Args, size \in 0..MaxLen :
                a.ptr /\ onedrive_truncate(a.ni, a.reparse, size)
HostSetOffline == \E ni \in Inodes, b \in BOOLEAN : host_set_offline(ni, b)

\* ---- the whole plugin under the host
Next ==
    \/ Getattr
    \/ Opendir
    \/ Release
    \/ Open
    \/ Create
    \/ Link
    \/ Unlink
    \/ Readdir
    \/ Read
    \/ read_loop
    \/ Write
    \/ write_loop
    \/ Truncate
    \/ HostSetOffline

Spec == Init /\ [][Next]_vars

\* ---- the operations on content and sizes
DataNext ==
    \/ Getattr
    \/ Read
    \/ read_loop
    \/ Write
    \/ write_loop
    \/ Truncate

DataSpec == Init /\ [][DataNext]_vars

\* A host primitive called in a loop returns, so the loop takes its next turn.
FairDataSpec == DataSpec /\ WF_vars(read_loop) /\ WF_vars(write_loop)

\* ---- the operations on the directory and its entries, and open
DirNext ==
    \/ Getattr
    \/ Opendir
    \/ Release
    \/ Open
    \/ Create
    \/ Link
    \/ Unlink
    \/ Readdir
    \/ HostSetOffline

DirSpec == Init /\ [][DirNext]_vars

\* ---- every operation, called with a descriptor of another plugin
\* A volume as the calls above can leave it.
GateInit ==
    \E size \in {0, MaxSize}, offline \in BOOLEAN, known \in BOOLEAN,
       blocks \in {1} :
        /\ inodes = [i \in Inodes |->
                IF i = "dir"
                THEN [is_dir |-> TRUE, offline |-> FALSE,
                      data_size |-> IF known THEN blocks * IndexBlockSize ELSE 0,
                      allocated_size |-> IF known THEN blocks * IndexBlockSize ELSE 0,
                      KnownSize |-> known]
                ELSE [is_dir |-> FALSE, offline |-> offline, data_size |-> size,
                      allocated_size |-> AllocatedFor(size), KnownSize |-> TRUE]]
        /\ attrs = [i \in Inodes |->
                IF i = "dir"
                THEN [data_size |-> blocks * IndexBlockSize,
                      allocated_size |-> blocks * IndexBlockSize]
                ELSE [data_size |-> size, allocated_size |-> AllocatedFor(size)]]
        /\ dirents = [n \in Names |-> NoInode]
        /\ ncreated = 0
        /\ errno = 0
        /\ streams = [open |-> 0, opened |-> 0, closed |-> 0, misuse |-> FALSE]
        /\ pc = "idle"
        /\ cur = CurIdle
        /\ last = NoCall
        /\ res = 0
        /\ stbuf = StatInit
        /\ new_ni = NoInode
        /\ calls = <<>>

ForeignArgs == [ni : Inodes, reparse : ForeignTags, ptr : BOOLEAN]

ForeignGetattr  == \E a \in ForeignArgs : onedrive_getattr(a.ni, a.reparse, a.ptr)
ForeignOpendir  == \E a \in ForeignArgs, f \in OpenFlags :
                       onedrive_opendir(a.ni, a.reparse, a.ptr, f)
ForeignRelease  == \E a \in ForeignArgs : onedrive_release(a.ni, a.reparse, a.ptr)
ForeignOpen     == \E a \in ForeignArgs : onedrive_open(a.ni, a.reparse, a.ptr)
ForeignCreate   == \E a \in ForeignArgs, n \in Names, t \in NodeTypes :
                       a.ptr /\ onedrive_create(a.ni, a.reparse, n, t)
ForeignLink     == \E a \in ForeignArgs, t \in Targets, n \in Names :
                       a.ptr /\ onedrive_link(a.ni, a.reparse, t, n)
ForeignUnlink   == \E a \in ForeignArgs, t \in Targets, n \in Names :
                       a.ptr /\ onedrive_unlink(a.ni, a.reparse, t, n)
ForeignReaddir  == \E a \in ForeignArgs : onedrive_readdir(a.ni, a.reparse, a.ptr)
ForeignRead     == \E a \in ForeignArgs, size \in 0..MaxLen, offset \in 0..MaxOffset :
                       onedrive_read(a.ni, a.reparse, a.ptr, size, offset)
ForeignWrite    == \E a \in ForeignArgs, size \in 0..MaxLen, offset \in 0..MaxOffset :
                       onedrive_write(a.ni, a.reparse, a.ptr, size, offset)
ForeignTruncate == \E a \in ForeignArgs, size \in 0..MaxLen :
                       a.ptr /\ onedrive_truncate(a.ni, a.reparse, size)

GateNext ==
    \/ ForeignGetattr
    \/ ForeignOpendir
    \/ ForeignRelease
    \/ ForeignOpen
    \/ ForeignCreate
    \/ ForeignLink
    \/ ForeignUnlink
    \/ ForeignReaddir
    \/ ForeignRead
    \/ ForeignWrite
    \/ ForeignTruncate

GateSpec == GateInit /\ [][GateNext]_vars

\* ------------------------------------------------------------ properties
Min(a, b) == IF a < b THEN a ELSE b

\* A step in which the host calls an operation (and not a later turn of a loop).
CallStep(op) == pc = "idle" /\ last'.op = op
\* The volume: inodes, attribute store and namespace.
VolumeUnchanged == UNCHANGED <<inodes, attrs, dirents, ncreated>>

\* The host primitives of one kind among those the call made.
CallsOf(fn) == SelectSeq(calls, LAMBDA c : c.fn = fn)
\* The call opened its attribute.
OpenedAttr ==
    Len(calls) >= 1 /\ calls[1].fn = "ntfs_attr_open" /\ calls[1].ret = 0

C2_StreamsScoped ==
    /\ ~streams.misuse
    /\ streams.opened =
         Cardinality({i \in 1..Len(calls) :
                         calls[i].fn = "ntfs_attr_open" /\ calls[i].ret = 0})
    /\ pc = "idle" => streams.open = 0 /\ streams.closed = streams.opened
    /\ pc # "idle" => streams.open = 1 /\ streams.opened = 1 /\ streams.closed = 0

\* A write that failed in its loop has returned with its stream closed.
C2_Witness ==
    /\ pc = "idle" /\ last.op = "write" /\ res < 0
    /\ Len(CallsOf("ntfs_attr_pwrite")) >= 2
    /\ streams.opened = 1 /\ streams.closed = 1 /\ streams.open = 0

\* ---- C3
\* Every ntfs_attr_pread of the call returned all it was asked for.
ReadsFull ==
    \A i \in 1..Len(calls) :
        calls[i].fn = "ntfs_attr_pread" => calls[i].ret = calls[i].count

\* C3: a read under a cloud tag whose data attribute opened and whose every
\* ntfs_attr_pread returned all it was asked for returns
\* min(size, max(0, data_size - offset)): 0 when offset >= data_size,
\* data_size - offset when offset < data_size < offset + size, and size when
\* offset + size <= data_size.
C3_ReadCount ==
    (pc = "idle" /\ last.op = "read" /\ last.reparse \in CloudTags
        /\ OpenedAttr /\ ReadsFull)
    => LET ds == attrs[last.ni].data_size
       IN /\ res = Min(last.size, Max(0, ds - last.offset))
          /\ last.offset >= ds => res = 0
          /\ (last.offset < ds /\ last.offset + last.size > ds) => res = ds - last.offset
          /\ last.offset + last.size <= ds => res = last.size

\* A read that reached past the end of the data returned the bytes up to the end.
C3_Witness ==
    /\ pc = "idle" /\ last.op = "read" /\ last.reparse \in CloudTags
    /\ OpenedAttr /\ ReadsFull
    /\ last.offset < attrs[last.ni].data_size
    /\ last.offset + last.size > attrs[last.ni].data_size
    /\ res = attrs[last.ni].data_size - last.offset

\* ---- C4
\* The chunks w written one after the other cover [offset, offset + size).
Covers(w, offset, size) ==
    /\ \A i \in 1..Len(w) : w[i].ret > 0
    /\ Len(w) = 0 => size = 0
    /\ Len(w) > 0 =>
         /\ w[1].offset = offset
         /\ \A i \in 1..(Len(w) - 1) : w[i + 1].offset = w[i].offset + w[i].ret
         /\ w[Len(w)].offset + w[Len(w)].ret = offset + size

\* C4: a write to the plain file under a cloud tag returns a negative error
\* code, or exactly size after chunk writes at consecutive offsets that cover
\* [offset, offset + size) without gap or overlap; whatever counts
\* ntfs_attr_pwrite returns, never another count.
C4_WriteAllOrError ==
    (pc = "idle" /\ last.op = "write" /\ last.ni # NULL /\ ~inodes[last.ni].is_dir
        /\ last.reparse \in CloudTags)
    => \/ res < 0
       \/ res = last.size /\ Covers(CallsOf("ntfs_attr_pwrite"), last.offset, last.size)

\* A write finished in several chunks.
C4_Witness ==
    /\ pc = "idle" /\ last.op = "write" /\ last.reparse \in CloudTags
    /\ res = last.size
    /\ Len(CallsOf("ntfs_attr_pwrite")) >= 2

\* ---- C5
\* C5: getattr on a directory under a cloud tag returns 0 with link count 1,
\* st_size the inode's data size and st_blocks its allocated size in 512-byte
\* blocks.  With KnownSize unset it opens the index attribute once and, when
\* the open succeeds, caches the attribute's two sizes and sets KnownSize;
\* when the open fails it leaves the inode as it is, KnownSize unset, and
\* reports the inode's unqueried sizes with result 0.  With KnownSize set it
\* opens nothing and leaves the inode as it is.  No
\* operation clears KnownSize or changes a directory's cached sizes once it
\* is set, so a getattr that follows a getattr on the inode returns the same
\* record.
C5_GetattrDirectory ==
    [][/\ \A i \in Inodes :
            inodes[i].KnownSize =>
                /\ inodes'[i].KnownSize
                /\ inodes[i].is_dir => inodes'[i] = inodes[i]
       /\ (CallStep("getattr") /\ last'.ni # NULL /\ last'.ptr
                /\ last'.reparse \in CloudTags /\ inodes[last'.ni].is_dir)
           => LET d == last'.ni
              IN /\ res' = 0
                 /\ stbuf'.st_nlink = 1
                 /\ stbuf'.st_size = inodes'[d].data_size
                 /\ stbuf'.st_blocks = inodes'[d].allocated_size \div 512
                 /\ VolumeUnchanged \/ ~inodes[d].KnownSize
                 /\ inodes[d].KnownSize => calls' = <<>> /\ streams'.opened = 0
                 /\ ~inodes[d].KnownSize =>
                      /\ Len(calls') = 1 /\ calls'[1].fn = "ntfs_attr_open"
                      /\ IF calls'[1].ret = 0
                         THEN /\ inodes'[d].KnownSize
                              /\ inodes'[d].data_size = attrs[d].data_size
                              /\ inodes'[d].allocated_size = attrs[d].allocated_size
                         ELSE inodes' = inodes
                 /\ (inodes[d].KnownSize /\ last.op = "getattr" /\ last.ni = d
                        /\ last.ptr /\ last.reparse \in CloudTags)
                      => stbuf' = stbuf]_vars

\* C5 as first stated: the sizes getattr reports for a directory are always
\* the index attribute's, either cached by an earlier getattr (KnownSize set)
\* or queried by this one.
C5_SizesFromIndex ==
    [][(CallStep("getattr") /\ last'.ni # NULL /\ last'.ptr
            /\ last'.reparse \in CloudTags /\ inodes[last'.ni].is_dir)
        => LET d == last'.ni
           IN /\ stbuf'.st_nlink = 1
              /\ IF inodes[d].KnownSize
                 THEN /\ stbuf'.st_size = inodes[d].data_size
                      /\ stbuf'.st_blocks = inodes[d].allocated_size \div 512
                 ELSE /\ stbuf'.st_size = attrs[d].data_size
                      /\ stbuf'.st_blocks = attrs[d].allocated_size \div 512]_vars

\* A getattr answered from the cached sizes, without opening the index
\* attribute, after the index had grown.
C5_Witness ==
    /\ pc = "idle" /\ last.op = "getattr" /\ last.ni = "dir" /\ last.ptr
    /\ last.reparse \in CloudTags
    /\ inodes["dir"].KnownSize
    /\ calls = <<>>
    /\ attrs["dir"].data_size # inodes["dir"].data_size
    /\ stbuf.st_size = inodes["dir"].data_size /\ stbuf.st_nlink = 1

\* ---- C6
\* C6: open of a plain file under a cloud tag fails with EREMOTE, which is
\* neither EIO nor EOPNOTSUPP, while the inode's offline flag is set, and
\* returns 0 whenever the flag is clear, so also on the retry that follows the
\* clearing of the flag; either way it calls no host primitive and changes
\* nothing.
C6_OpenOffline ==
    [][/\ EREMOTE \notin {EIO, EOPNOTSUPP}
       /\ (CallStep("open") /\ last'.ni # NULL /\ last'.reparse \in CloudTags
                /\ ~inodes[last'.ni].is_dir)
           => /\ res' = IF inodes[last'.ni].offline THEN -EREMOTE ELSE 0
              /\ calls' = <<>>
              /\ streams'.opened = 0
              /\ VolumeUnchanged
              /\ UNCHANGED errno]_vars

\* An open of the offline file was refused with EREMOTE.
C6_Witness ==
    /\ pc = "idle" /\ last.op = "open" /\ last.ni = "file"
    /\ last.reparse \in CloudTags
    /\ inodes["file"].offline
    /\ res = -EREMOTE

\* ---- C7
\* C7: write and truncate on a directory return EINVAL whatever the reparse
\* descriptor, buffer, size and offset, having called no host primitive (no
\* ntfs_attr_open, ntfs_attr_pwrite or ntfs_attr_truncate) and opened no stream.
C7_DirectoryInvalid ==
    /\ (pc = "idle" /\ last.op \in {"write", "truncate"} /\ last.ni # NULL
            /\ inodes[last.ni].is_dir)
        => res = -EINVAL /\ calls = <<>> /\ streams.opened = 0
    /\ pc = "write" => ~inodes[cur.ni].is_dir

\* A write of some bytes to the directory under a cloud tag was refused.
C7_Witness ==
    /\ pc = "idle" /\ last.op = "write" /\ last.ni = "dir" /\ last.ptr
    /\ last.reparse \in CloudTags /\ last.size > 0
    /\ res = -EINVAL

\* ---- C8
\* C8: opendir returns 0 exactly when the tag is a cloud tag, the inode is a
\* directory and the access mode (the two low bits of the flags) is O_RDONLY,
\* and EOPNOTSUPP otherwise, so for O_WRONLY, for O_RDWR and for a plain
\* file; it never calls a host primitive, opens a stream or changes anything.
C8_Opendir ==
    [][CallStep("opendir")
        => /\ res' = 0 <=>
                /\ last'.ni # NULL /\ last'.ptr
                /\ last'.reparse \in CloudTags
                /\ inodes[last'.ni].is_dir
                /\ last'.mode % 4 = O_RDONLY
           /\ res' # 0 => res' = -EOPNOTSUPP
           /\ calls' = <<>>
           /\ new_ni' = NoInode
           /\ streams'.opened = 0 /\ streams'.open = streams.open
           /\ VolumeUnchanged
           /\ UNCHANGED errno]_vars

\* An opendir of the directory for writing was refused with EOPNOTSUPP.
C8_Witness ==
    /\ pc = "idle" /\ last.op = "opendir" /\ last.ni = "dir" /\ last.ptr
    /\ last.reparse \in CloudTags
    /\ last.mode = O_WRONLY
    /\ res = -EOPNOTSUPP

\* ---- C9
\* The file type bits of a mode: mode & S_IFMT.
KindOf(mode) == (mode \div 4096) * 4096

\* C9: create with a kind that is neither regular file nor directory returns
\* no inode and sets errno to EOPNOTSUPP without calling ntfs_create, and the
\* volume has no new inode or entry; ntfs_create is called only under a cloud
\* tag, on a directory, for a regular file or a directory.
C9_CreateKind ==
    [][CallStep("create")
        => /\ KindOf(last'.mode) \notin {S_IFREG, S_IFDIR}
                => /\ new_ni' = NoInode
                   /\ errno' = EOPNOTSUPP
                   /\ calls' = <<>>
                   /\ VolumeUnchanged
           /\ calls' # <<>>
                => /\ Len(calls') = 1 /\ calls'[1].fn = "ntfs_create"
                   /\ last'.ni # NULL /\ last'.reparse \in CloudTags
                   /\ inodes[last'.ni].is_dir
                   /\ KindOf(last'.mode) \in {S_IFREG, S_IFDIR}
           /\ ncreated' # ncreated => calls' # <<>> /\ new_ni' # NoInode]_vars

\* A create of a symbolic link in the directory was refused.
C9_Witness ==
    /\ pc = "idle" /\ last.op = "create" /\ last.ni = "dir"
    /\ last.reparse \in CloudTags
    /\ last.mode = S_IFLNK
    /\ new_ni = NoInode /\ errno = EOPNOTSUPP /\ calls = <<>>

\* ---- C10
\* The size a read is clamped to.
Clamped(size, offset, data_size) == Min(size, Max(0, data_size - offset))

\* C10: a read that entered its loop returns.  Inside the loop the bytes read
\* and the bytes remaining add up to the clamped size; a return r of
\* ntfs_attr_pread with 0 < r <= remaining advances offset and total by r and
\* takes r off the remaining size, the loop going on after a short read and
\* the call returning the clamped size after the last; a return r <= 0 or
\* r > remaining ends the call at once with -errno when r < 0 and -EIO
\* otherwise, a negative result.
C10_ReadLoop ==
    /\ (pc = "read") ~> (pc = "idle")
    /\ [](pc = "read" =>
            /\ cur.size > 0
            /\ cur.offset = last.offset + cur.total
            /\ cur.total + cur.size
                 = Clamped(last.size, last.offset, attrs[cur.ni].data_size))
    /\ [][pc = "read" =>
            LET r == calls'[Len(calls')].ret
                remaining == cur.size
            IN /\ Len(calls') = Len(calls) + 1
               /\ calls'[Len(calls')] =
                     HostCall("ntfs_attr_pread", cur.offset, remaining, r)
               /\ (0 < r /\ r < remaining) =>
                     /\ pc' = "read"
                     /\ cur' = [cur EXCEPT !.offset = @ + r, !.total = @ + r,
                                           !.size = @ - r]
               /\ r = remaining =>
                     /\ pc' = "idle"
                     /\ res' = cur.total + r
                     /\ res' = Clamped(last.size, last.offset,
                                        attrs[cur.ni].data_size)
               /\ (r <= 0 \/ r > remaining) =>
                     /\ pc' = "idle"
                     /\ res' = IF r < 0 THEN -errno' ELSE -EIO
                     /\ res' < 0]_vars

\* A read returned its clamped size after a short read.
C10_Witness ==
    /\ pc = "idle" /\ last.op = "read"
    /\ Len(CallsOf("ntfs_attr_pread")) >= 2
    /\ res = Clamped(last.size, last.offset, attrs[last.ni].data_size)
    /\ res > 0

====
